---- MODULE Spec2Model ----
(***************************************************************************)
(* Model of utils/metrics_calculation.py (get_periods_per_year,            *)
(* calculate_returns_from_signals, calculate_metrics), of                  *)
(* utils/data_loader.py (load_kline_data) and of                           *)
(* API/crypto_ohlcv_binance.py (get_kline_time).                           *)
(*                                                                         *)
(* Conventions.  Positions (iloc, get_loc, range) keep the 0-based values  *)
(* of the Python code; a TLA+ sequence s holds position p at s[p + 1].     *)
(* Prices are powers of two, so every trade return (exit - entry) / entry  *)
(* is an exact binary fraction and the float arithmetic of the code is     *)
(* exact; a return r is held as the integer r * Scale.                     *)
(***************************************************************************)
EXTENDS Integers, Sequences, FiniteSets

VARIABLES
    close,           \* df['close'], one price per bar
    signals,         \* the signals array, aligned with the bars
    pc,              \* position of the call: "scan", "metrics", "done", "interval"
    i,               \* loop variable of calculate_returns_from_signals
    position,        \* 0 = flat, 1 = long
    entry_price,     \* close of the bar that opened the position
    returns,         \* list of trade returns (in units of 1 / Scale)
    trade_outcomes,  \* list of booleans, TRUE when the trade was profitable
    interval,        \* the interval descriptor handed to get_periods_per_year
    periods,         \* outcome of get_periods_per_year(interval)
    annualization_factor,  \* the optional argument of calculate_metrics
    result,          \* outcome of calculate_metrics
    loader,          \* the call of load_kline_data: arguments, files, locals
    fetch            \* the call of get_kline_time: arguments, provider, locals

vars == <<close, signals, pc, i, position, entry_price, returns,
          trade_outcomes, interval, periods, annualization_factor, result,
          loader, fetch>>

\* the state of calculate_metrics and of get_periods_per_year
metricsVars == <<close, signals, pc, i, position, entry_price, returns,
                 trade_outcomes, interval, periods, annualization_factor,
                 result>>

-----------------------------------------------------------------------------
(* Bounds and input alphabets *)

MaxLen == 5
MaxDescLen == 3
MaxTrades == 5
MaxSymbols == 3
MaxTime == 3
MaxFailures == 2

Prices == {1, 2}
Scale == CHOOSE p \in Prices : \A q \in Prices : q <= p

Buy == 1
Sell == -1
Hold == 0
Signal == {Sell, Hold, Buy}

SeqsUpTo(S, n) == UNION {[1..m -> S] : m \in 0..n}

-----------------------------------------------------------------------------
(* calculate_returns_from_signals *)

\* state of the function on entry: lines 40-43
ScanInit == [position |-> 0, entry_price |-> 0, returns |-> <<>>,
             trade_outcomes |-> <<>>]

\* (exit_price - entry_price) / entry_price, line 52, in units of 1 / Scale
TradeReturn(entry, exit) == ((exit - entry) * Scale) \div entry

\* variant of the loop body: the Buy branch does not test the position
ScanBodyRebuy(st, price, sig) ==
    IF sig = 1
    THEN [st EXCEPT !.position = 1, !.entry_price = price]
    ELSE IF sig = -1 /\ st.position = 1
    THEN LET trade_return == TradeReturn(st.entry_price, price)
         IN [st EXCEPT !.position = 0,
                       !.returns = Append(@, trade_return),
                       !.trade_outcomes = Append(@, trade_return > 0)]
    ELSE st

\* the loop body, lines 46-54, for a bar with the given close and signal
ScanBody(st, price, sig) ==
    IF sig = 1 /\ st.position = 0
    THEN [st EXCEPT !.position = 1, !.entry_price = price]
    ELSE IF sig = -1 /\ st.position = 1
    THEN LET trade_return == TradeReturn(st.entry_price, price)
         IN [st EXCEPT !.position = 0,
                       !.returns = Append(@, trade_return),
                       !.trade_outcomes = Append(@, trade_return > 0)]
    ELSE st

\* variant of the loop start: range(len(df)), position 0 included
ScanStartZero == 1 - 1

\* first position of range(1, len(df)), line 45
ScanStart == 1

\* the whole loop, lines 45-54, run from position p to the end of the frame
RECURSIVE ScanFrom(_, _, _, _)
ScanFrom(st, cl, sg, p) ==
    IF p >= Len(cl) THEN st
    ELSE ScanFrom(ScanBody(st, cl[p + 1], sg[p + 1]), cl, sg, p + 1)

\* variant of the return: a position still open is closed on the last bar
ScanFinishCloseOpen(st, cl) ==
    IF st.position = 1
    THEN LET trade_return == TradeReturn(st.entry_price, cl[Len(cl)])
         IN <<Append(st.returns, trade_return),
              Append(st.trade_outcomes, trade_return > 0)>>
    ELSE <<st.returns, st.trade_outcomes>>

\* the return statement, lines 56-57: the returns and outcomes collected by
\* the loop, whatever the position is when the frame ends
ScanFinish(st, cl) == <<st.returns, st.trade_outcomes>>

\* the function on a whole input, lines 40-57
calculate_returns_from_signals(cl, sg) ==
    ScanFinish(ScanFrom(ScanInit, cl, sg, ScanStart), cl)

ScanState == [position |-> position, entry_price |-> entry_price,
              returns |-> returns, trade_outcomes |-> trade_outcomes]

-----------------------------------------------------------------------------
(* get_periods_per_year *)

\* An interval descriptor is a sequence of one-character strings.
Digits == {"0", "1", "2"}
Spaces == {" "}
Chars == Digits \cup Spaces \cup {"h", "d", "D", "m"}

\* the unit alternatives of the pattern, (h|d), line 17
UnitLettersAny == {"h", "d", "m"}
UnitLetters == {"h", "d"}

\* str.lower on the letters of the alphabet, line 22 (and re.IGNORECASE)
Lower(c) == IF c = "D" THEN "d" ELSE IF c = "H" THEN "h" ELSE c

\* length of the longest run of characters of class cls starting at
\* position p (0-based) of descriptor d: the greedy \d+ and \s*
RECURSIVE RunLength(_, _, _)
RunLength(d, p, cls) ==
    IF p < Len(d) /\ d[p + 1] \in cls THEN 1 + RunLength(d, p + 1, cls) ELSE 0

\* re.match(r"(\d+)\s*(h|d)", interval, re.IGNORECASE), line 17: the match is
\* anchored at the start of the descriptor only.  The three character classes
\* are disjoint, so backtracking never finds a match the greedy scan misses.
ReMatch(d) ==
    LET nd == RunLength(d, 0, Digits)
        ns == RunLength(d, nd, Spaces)
        up == nd + ns
    IN IF nd >= 1 /\ up < Len(d) /\ Lower(d[up + 1]) \in UnitLetters
       THEN [matched |-> TRUE, digits |-> SubSeq(d, 1, nd), unit |-> d[up + 1]]
       ELSE [matched |-> FALSE, digits |-> <<>>, unit |-> ""]

DigitValue(c) == IF c = "0" THEN 0 ELSE IF c = "1" THEN 1 ELSE 2

\* int(num), line 21
RECURSIVE ParseInt(_)
ParseInt(ds) ==
    IF ds = <<>> THEN 0
    ELSE 10 * ParseInt(SubSeq(ds, 1, Len(ds) - 1)) + DigitValue(ds[Len(ds)])

HoursPerYear == 8760
DaysPerYear == 365

\* a / n in Python: the quotient, kept as the pair (num, den), or the error
TrueDivide(a, n) ==
    IF n = 0 THEN [status |-> "ZeroDivisionError", num |-> 0, den |-> 1]
    ELSE [status |-> "ok", num |-> a, den |-> n]

\* lines 17-27
get_periods_per_year(d) ==
    LET m == ReMatch(d)
    IN IF ~m.matched
       THEN [status |-> "ValueError", num |-> 0, den |-> 1]
       ELSE LET num == ParseInt(m.digits)
                unit == Lower(m.unit)
            IN IF unit = "h" THEN TrueDivide(HoursPerYear, num)
               ELSE IF unit = "d" THEN TrueDivide(DaysPerYear, num)
               ELSE [status |-> "ok", num |-> 1, den |-> 1]

-----------------------------------------------------------------------------
(* Arithmetic helpers *)

SetMax(S) == CHOOSE x \in S : \A y \in S : y <= x
SetMin(S) == CHOOSE x \in S : \A y \in S : x <= y

\* the integer nearest to num / den (den > 0), ties to the even neighbour:
\* Python's round on a value the float holds exactly
RoundHalfEven(num, den) ==
    LET q == num \div den
        r == num % den
    IN IF 2 * r < den THEN q
       ELSE IF 2 * r > den THEN q + 1
       ELSE IF q % 2 = 0 THEN q ELSE q + 1

\* round(num / den, 4) and round(num / den, 2), as a count of 1e-4 and 1e-2
Round4(num, den) == RoundHalfEven(num * 10000, den)
Round2(num, den) == RoundHalfEven(num * 100, den)

-----------------------------------------------------------------------------
(* calculate_metrics, lines 83-151 *)

\* Series.sum of the first m entries of rs
RECURSIVE SumTo(_, _)
SumTo(rs, m) == IF m = 0 THEN 0 ELSE SumTo(rs, m - 1) + rs[m]

\* returns.cumsum(), line 94
CumSum(rs) == [j \in 1..Len(rs) |-> SumTo(rs, j)]

\* cumu.cummax(), line 95
CumMax(c) == [j \in 1..Len(c) |-> SetMax({c[m] : m \in 1..j})]

\* cumu - running_max, line 96
Drawdowns(rs) ==
    LET c == CumSum(rs)
        rm == CumMax(c)
    IN [j \in 1..Len(rs) |-> c[j] - rm[j]]

\* drawdowns.min() if len(drawdowns) else 0, line 97
MaxDD(rs) ==
    LET d == Drawdowns(rs)
    IN IF Len(rs) > 0 THEN SetMin({d[j] : j \in 1..Len(rs)}) ELSE 0

\* position in the series of drawdowns.idxmin(): the first minimum, line 100
IdxMin(d) == SetMin({j \in 0..(Len(d) - 1) : d[j + 1] = SetMin({d[m] : m \in 1..Len(d)})})

\* len(df.index[1:n + 1]) for a frame of nbars bars, line 56: the slice holds
\* the bars at positions 1 .. n that exist
IndexSliceLen(nbars, n) == Cardinality({q \in 1..n : q < nbars})

\* The return series is built with index=df.index[1:len(returns) + 1]
\* (line 56): the point at position j carries the label of bar j + 1, and
\* df.index.get_loc of that label is j + 1 (lines 101, 108).
SeriesLabelLoc(j) == j + 1

\* the bars were fetched as 1-hour klines: df.index[loc] in seconds
SecondsPerBar == 3600
Timestamp(loc) == loc * SecondsPerBar

SecondsPerDay == 86400

\* lines 100-102: the position in df of the trough label
DDEndLoc(rs) ==
    IF Len(rs) > 0 THEN SeriesLabelLoc(IdxMin(Drawdowns(rs))) ELSE 0

\* variant of the drawdown start: the first peak before the trough
\* (index[0] for index[-1] at line 107)
DDStartLocFirst(rs) ==
    LET c == CumSum(rs)
        rm == CumMax(c)
        e == DDEndLoc(rs)
        pre == {j \in 0..(e - 1) : j < Len(rs) /\ rm[j + 1] = c[j + 1]}
    IN IF e > 0
       THEN IF pre # {} THEN SeriesLabelLoc(SetMin(pre)) ELSE 0
       ELSE e

\* lines 104-113: the position in df of the drawdown start
DDStartLoc(rs) ==
    LET c == CumSum(rs)
        rm == CumMax(c)
        e == DDEndLoc(rs)
        \* running_max.iloc[:e] == cumu.iloc[:e]: positions 0 .. e - 1 that exist
        pre == {j \in 0..(e - 1) : j < Len(rs) /\ rm[j + 1] = c[j + 1]}
    IN IF e > 0
       THEN IF pre # {} THEN SeriesLabelLoc(SetMax(pre)) ELSE 0
       ELSE e

\* line 116 reads running_max.iloc[dd_end_loc]: out of bounds when the
\* position is not below the length of the series
RecoverInBounds(rs) == DDEndLoc(rs) < Len(rs)

\* lines 115-117, when line 116 is in bounds: the position in df of recovery
DDRecoverLoc(rs) ==
    LET c == CumSum(rs)
        rm == CumMax(c)
        e == DDEndLoc(rs)
        \* post = cumu.iloc[e:], recover = post[post >= running_max.iloc[e]]
        recover == {j \in e..(Len(rs) - 1) : c[j + 1] >= rm[e + 1]}
    IN IF recover # {} THEN SeriesLabelLoc(SetMin(recover)) ELSE e

\* variant of the duration: the operands of the difference exchanged
MddSecondsReversed(rs) == Timestamp(DDStartLoc(rs)) - Timestamp(DDRecoverLoc(rs))

\* line 118, in seconds (dd_start and dd_recover are Timestamps: always truthy)
MddSeconds(rs) == Timestamp(DDRecoverLoc(rs)) - Timestamp(DDStartLoc(rs))

\* variant of the count: every outcome is counted, profitable or not
WinTradesAll(outcomes) == Len(outcomes)

\* line 134: the number of profitable trades
WinTrades(outcomes) == Cardinality({j \in 1..Len(outcomes) : outcomes[j]})

\* line 135: (win_trades / num_trades * 100) if num_trades else 0.0, as the
\* pair (num, den)
WinRate(outcomes, num_trades) ==
    IF num_trades # 0 THEN <<WinTrades(outcomes) * 100, num_trades>> ELSE <<0, 1>>

\* Values that need a square root are kept symbolic: kind "zero" is the
\* number 0, kind "nan" is the float NaN, kind "value" is the expression
\* built from its parts.

\* Series.std() (sample standard deviation, ddof = 1) guarded by
\* "if len(...) else 0", lines 89 and 122: 0 for an empty series, NaN for a
\* single entry, else sqrt(var) with var = (n * sum r^2 - (sum r)^2) / (n (n - 1))
SeriesStd(rs) ==
    LET n == Len(rs)
        sq == [j \in 1..n |-> rs[j] * rs[j]]
        vnum == n * SumTo(sq, n) - SumTo(rs, n) * SumTo(rs, n)
    IN IF n = 0 THEN [kind |-> "zero", num |-> 0, den |-> 1]
       ELSE IF n = 1 THEN [kind |-> "nan", num |-> 0, den |-> 1]
       ELSE IF vnum = 0 THEN [kind |-> "zero", num |-> 0, den |-> 1]
       ELSE [kind |-> "value", num |-> vnum, den |-> n * (n - 1) * Scale * Scale]

\* returns.mean() if len(returns) else 0, line 90, as the pair (num, den)
MeanReturn(rs) ==
    IF Len(rs) > 0 THEN <<SumTo(rs, Len(rs)), Len(rs) * Scale>> ELSE <<0, 1>>

\* returns[returns < 0], line 121
RECURSIVE Downside(_)
Downside(rs) ==
    IF rs = <<>> THEN <<>>
    ELSE IF Head(rs) < 0 THEN <<Head(rs)>> \o Downside(Tail(rs))
    ELSE Downside(Tail(rs))

\* variant of the default: "if not annualization_factor", so that an
\* override of 0 is replaced by the default too
AnnualizationFalsy(af, ppy) ==
    IF af.given /\ af.value # 0
    THEN [kind |-> "given", value |-> af.value, num |-> 0, den |-> 1]
    ELSE [kind |-> "sqrt", value |-> 0, num |-> ppy.num, den |-> ppy.den]

\* lines 85-86: the scalar used when the caller gives none is sqrt(periods)
Annualization(af, ppy) ==
    IF af.given THEN [kind |-> "given", value |-> af.value, num |-> 0, den |-> 1]
    ELSE [kind |-> "sqrt", value |-> 0, num |-> ppy.num, den |-> ppy.den]

\* (mean_return / std * annualization_factor) if std else 0, lines 91 and 123;
\* NaN is truthy, so a NaN deviation gives NaN
OverStd(mean, std, f) ==
    IF std.kind = "zero"
    THEN [kind |-> "zero", mean |-> <<0, 1>>, var |-> <<0, 1>>, factor |-> f]
    ELSE IF std.kind = "nan"
    THEN [kind |-> "nan", mean |-> mean, var |-> <<0, 1>>, factor |-> f]
    ELSE [kind |-> "value", mean |-> mean, var |-> <<std.num, std.den>>, factor |-> f]

\* whether a symbolic value is the number 0
IsZero(v) ==
    \/ v.kind = "zero"
    \/ /\ v.kind = "value"
       /\ \/ v.mean[1] = 0
          \/ v.factor.kind = "given" /\ v.factor.value = 0

\* line 126: (mean_return * periods_per_year / abs(max_dd)) if max_dd else 0,
\* as the pair (num, den); mean and max_dd are both in units of 1 / Scale
Calmar(rs, ppy) ==
    LET mdd == MaxDD(rs)
    IN IF mdd # 0
       THEN <<SumTo(rs, Len(rs)) * ppy.num, Len(rs) * ppy.den * (0 - mdd)>>
       ELSE <<0, 1>>

\* line 127: mean_return * periods_per_year
AnnReturn(rs, ppy) ==
    LET mean == MeanReturn(rs)
    IN <<mean[1] * ppy.num, mean[2] * ppy.den>>

\* line 131: sharpe / calmar if calmar else 0
SharpeOverCalmar(sharpe, calmar) ==
    IF calmar[1] = 0 \/ sharpe.kind = "zero" THEN [kind |-> "zero"]
    ELSE IF sharpe.kind = "nan" THEN [kind |-> "nan"]
    ELSE [kind |-> "value"]

\* line 130: num_trades / len(df) if len(df) else 0, rounded at line 145
TradesPerInterval(num_trades, nbars) ==
    IF nbars # 0 THEN Round4(num_trades, nbars) ELSE 0

\* lines 89-151 once periods_per_year is known: the record returned, or the
\* IndexError raised at line 100 (df.index[0] of an empty frame) or at line
\* 116 (running_max.iloc[dd_end_loc] past the end of the series)
MetricsRecord(cl, rs, outcomes, ppy, af) ==
    LET f == Annualization(af, ppy)
        mean == MeanReturn(rs)
        sharpe == OverStd(mean, SeriesStd(rs), f)
        sortino == OverStd(mean, SeriesStd(Downside(rs)), f)
        calmar == Calmar(rs, ppy)
        ann == AnnReturn(rs, ppy)
        n == Len(rs)
    IN IF n = 0 /\ Len(cl) = 0 THEN [status |-> "IndexError", line |-> 100]
       ELSE IF ~RecoverInBounds(rs) THEN [status |-> "IndexError", line |-> 116]
       ELSE [status |-> "ok",
             SR |-> sharpe,
             CR |-> Round4(calmar[1], calmar[2]),
             MDD |-> Round4(MaxDD(rs), Scale),
             sortino_ratio |-> sortino,
             AR |-> Round4(ann[1], ann[2]),
             num_of_trades |-> n,
             TR |-> Round4(SumTo(rs, n), Scale),
             trades_per_interval |-> TradesPerInterval(n, Len(cl)),
             MDD_MAX_DURATION_IN_DAY |-> Round4(MddSeconds(rs), SecondsPerDay),
             SR_CR |-> SharpeOverCalmar(sharpe, calmar),
             win_rate |-> Round2(WinRate(outcomes, n)[1], WinRate(outcomes, n)[2]),
             backtest_start_date |-> Timestamp(0),
             backtest_end_date |-> Timestamp(Len(cl) - 1)]

\* lines 84-151: get_periods_per_year may raise before anything else
calculate_metrics_tail(cl, rs, outcomes, ppy, af) ==
    IF ppy.status # "ok" THEN [status |-> ppy.status, line |-> 84]
    ELSE MetricsRecord(cl, rs, outcomes, ppy, af)

-----------------------------------------------------------------------------
(* load_kline_data, utils/data_loader.py *)

SymbolNames == {"BTCUSDT", "ETHUSDT", "BNBUSDT"}

\* what the file system holds for a symbol's CSV path: no file, a file that
\* pandas fails on (read_csv, set_index or the column selection raises), or
\* a file that loads
FileStates == {"missing", "unreadable", "ok"}

\* os.path.join(candle_folder, f'{symbol}_{interval}_binance.csv'), line 20,
\* for the default interval
CsvPath(sym) == <<"candle", sym, "1h", "binance.csv">>

\* variant of the loop body: the loop ends at the first file that is missing
\* (break for continue at line 23)
LoadSymbolBreak(st, sym) ==
    IF st.files[sym] = "missing"
    THEN [st EXCEPT !.warnings = Append(@, <<"not found", sym>>),
                    !.pc = "returned"]
    ELSE IF st.files[sym] = "unreadable"
    THEN [st EXCEPT !.warnings = Append(@, <<"error", sym>>), !.k = @ + 1]
    ELSE [st EXCEPT !.dataframes =
                        {e \in @ : e[1] # sym} \cup {<<sym, CsvPath(sym)>>},
                    !.k = @ + 1]

\* the loop body, lines 20-29, for one symbol; dataframes is the mapping, held
\* as the set of its (symbol, frame) pairs, a frame being the path it was
\* read from
LoadSymbol(st, sym) ==
    IF st.files[sym] = "missing"
    THEN [st EXCEPT !.warnings = Append(@, <<"not found", sym>>), !.k = @ + 1]
    ELSE IF st.files[sym] = "unreadable"
    THEN [st EXCEPT !.warnings = Append(@, <<"error", sym>>), !.k = @ + 1]
    ELSE [st EXCEPT !.dataframes =
                        {e \in @ : e[1] # sym} \cup {<<sym, CsvPath(sym)>>},
                    !.k = @ + 1]

LoaderIdle == [pc |-> "idle", symbols |-> <<>>,
               files |-> [s \in SymbolNames |-> "missing"],
               k |-> 0, dataframes |-> {}, warnings |-> <<>>]

-----------------------------------------------------------------------------
(* get_kline_time, API/crypto_ohlcv_binance.py *)

\* Open times are points of a grid 0 .. MaxTime; the provider holds a bar for
\* some of them.
Times == 0..MaxTime
Limits == {1, 2}

\* the ascending sequence of the elements of a finite set of integers
RECURSIVE Ascending(_)
Ascending(S) ==
    IF S = {} THEN <<>>
    ELSE <<SetMin(S)>> \o Ascending(S \ {SetMin(S)})

\* client.get_klines(startTime, endTime, limit), lines 38-44, when it answers:
\* the first limit bars with startTime <= open time <= endTime, ascending;
\* a bar is held as its open time, kline[0]
GetKlines(bars, startTime, endTime, lim) ==
    LET all == Ascending({t \in bars : startTime <= t /\ t <= endTime})
    IN SubSeq(all, 1, IF Len(all) < lim THEN Len(all) ELSE lim)

\* variant of the next request: batch[-1][0], the "+ 1" forgotten
NextStartSame(batch) == batch[Len(batch)]

\* line 48: start_ts = batch[-1][0] + 1
NextStart(batch) == batch[Len(batch)] + 1

\* variant of the handler: the loop is left at the first exception
OnExceptionBreak(f) == [f EXCEPT !.pc = "returned"]

\* lines 51-54: the exception is printed and the loop continues
OnException(f) == f

FetchIdle == [pc |-> "idle", start_time |-> 0, end_time |-> 0, limit |-> 1,
              bars |-> {}, down |-> FALSE, start_ts |-> 0, klines |-> <<>>,
              failures |-> 0]

-----------------------------------------------------------------------------
(* Specification of one call of calculate_metrics *)

\* the interval descriptors and annualization factors a call is given
Intervals == {<<"1", "h">>, <<"2", "d">>, <<"1", "m">>}
NoFactor == [given |-> FALSE, value |-> 0]
AnnFactors == {NoFactor, [given |-> TRUE, value |-> 0], [given |-> TRUE, value |-> 2]}

NoPeriods == [status |-> "none", num |-> 0, den |-> 1]
NoResult == [status |-> "none"]

Init ==
    /\ close \in SeqsUpTo(Prices, MaxLen)
    /\ signals \in [1..Len(close) -> Signal]
    /\ pc = "scan"
    /\ i = ScanStart
    /\ position = ScanInit.position
    /\ entry_price = ScanInit.entry_price
    /\ returns = ScanInit.returns
    /\ trade_outcomes = ScanInit.trade_outcomes
    /\ interval = <<>>
    /\ periods = NoPeriods
    /\ annualization_factor = NoFactor
    /\ result = NoResult
    /\ loader = LoaderIdle
    /\ fetch = FetchIdle

\* one iteration of the for loop, lines 45-54
ScanStep ==
    /\ pc = "scan"
    /\ i < Len(close)
    /\ LET st == ScanBody(ScanState, close[i + 1], signals[i + 1])
       IN /\ position' = st.position
          /\ entry_price' = st.entry_price
          /\ returns' = st.returns
          /\ trade_outcomes' = st.trade_outcomes
    /\ i' = i + 1
    /\ UNCHANGED <<close, signals, pc, interval, periods,
                   annualization_factor, result, loader, fetch>>

\* the loop is exhausted and the function returns, lines 56-57
ScanReturn ==
    /\ pc = "scan"
    /\ i >= Len(close)
    /\ returns' = ScanFinish(ScanState, close)[1]
    /\ trade_outcomes' = ScanFinish(ScanState, close)[2]
    /\ pc' = "metrics"
    /\ UNCHANGED <<close, signals, i, position, entry_price, interval,
                   periods, annualization_factor, result, loader, fetch>>

\* the rest of calculate_metrics, lines 83-151.  The arguments interval and
\* annualization_factor are first read here and are drawn when read.
Metrics ==
    /\ pc = "metrics"
    /\ \E iv \in Intervals, af \in AnnFactors :
          /\ interval' = iv
          /\ annualization_factor' = af
          /\ periods' = get_periods_per_year(iv)
          /\ result' = calculate_metrics_tail(close, returns, trade_outcomes,
                                               get_periods_per_year(iv), af)
    /\ pc' = "done"
    /\ UNCHANGED <<close, signals, i, position, entry_price, returns,
                   trade_outcomes, loader, fetch>>

Next == ScanStep \/ ScanReturn \/ Metrics

Spec == Init /\ [][Next]_vars

-----------------------------------------------------------------------------
(* Specification of calls of calculate_metrics on frames that trade on every
   bar: Buy and Sell alternate from position 1 on, so that a frame of
   2 n + 1 bars completes n trades and the cumulative curve has n points *)

\* the (entry, exit) closes of one trade: a gain, a loss, a return of 0
TradeShapes == {<<1, 2>>, <<2, 1>>, <<1, 1>>}

InitCurve ==
    /\ \E n \in 0..MaxTrades :
         \E shapes \in [1..n -> TradeShapes] :
            /\ close = [p \in 1..(2 * n + 1) |->
                           IF p = 1 THEN 1
                           ELSE shapes[p \div 2][IF p % 2 = 0 THEN 1 ELSE 2]]
            /\ signals = [p \in 1..(2 * n + 1) |->
                           IF p = 1 THEN Hold
                           ELSE IF p % 2 = 0 THEN Buy ELSE Sell]
    /\ pc = "scan"
    /\ i = ScanStart
    /\ position = ScanInit.position
    /\ entry_price = ScanInit.entry_price
    /\ returns = ScanInit.returns
    /\ trade_outcomes = ScanInit.trade_outcomes
    /\ interval = <<>>
    /\ periods = NoPeriods
    /\ annualization_factor = NoFactor
    /\ result = NoResult
    /\ loader = LoaderIdle
    /\ fetch = FetchIdle

SpecCurve == InitCurve /\ [][Next]_vars

-----------------------------------------------------------------------------
(* Specification of one call of get_periods_per_year on any descriptor *)

InitInterval ==
    /\ interval \in SeqsUpTo(Chars, MaxDescLen)
    /\ pc = "interval"
    /\ close = <<>>
    /\ signals = <<>>
    /\ i = ScanStart
    /\ position = ScanInit.position
    /\ entry_price = ScanInit.entry_price
    /\ returns = ScanInit.returns
    /\ trade_outcomes = ScanInit.trade_outcomes
    /\ periods = NoPeriods
    /\ annualization_factor = NoFactor
    /\ result = NoResult
    /\ loader = LoaderIdle
    /\ fetch = FetchIdle

\* the call get_periods_per_year(interval), lines 17-27
GetPeriods ==
    /\ pc = "interval"
    /\ periods' = get_periods_per_year(interval)
    /\ pc' = "done"
    /\ UNCHANGED <<close, signals, i, position, entry_price, returns,
                   trade_outcomes, interval, annualization_factor, result,
                   loader, fetch>>

NextInterval == GetPeriods

SpecInterval == InitInterval /\ [][NextInterval]_vars

-----------------------------------------------------------------------------
(* Specification of one call of load_kline_data *)

InitLoader ==
    /\ \E syms \in SeqsUpTo(SymbolNames, MaxSymbols),
          fs \in [SymbolNames -> FileStates] :
          loader = [LoaderIdle EXCEPT !.pc = "loop", !.symbols = syms,
                                      !.files = fs]
    /\ fetch = FetchIdle
    /\ close = <<>>
    /\ signals = <<>>
    /\ pc = "idle"
    /\ i = ScanStart
    /\ position = ScanInit.position
    /\ entry_price = ScanInit.entry_price
    /\ returns = ScanInit.returns
    /\ trade_outcomes = ScanInit.trade_outcomes
    /\ interval = <<>>
    /\ periods = NoPeriods
    /\ annualization_factor = NoFactor
    /\ result = NoResult

\* one iteration of "for symbol in symbols", lines 19-29
LoadStep ==
    /\ loader.pc = "loop"
    /\ loader.k < Len(loader.symbols)
    /\ loader' = LoadSymbol(loader, loader.symbols[loader.k + 1])
    /\ UNCHANGED <<metricsVars, fetch>>

\* the symbols are exhausted: return dataframes, line 30
LoadReturn ==
    /\ loader.pc = "loop"
    /\ loader.k >= Len(loader.symbols)
    /\ loader' = [loader EXCEPT !.pc = "returned"]
    /\ UNCHANGED <<metricsVars, fetch>>

NextLoader == LoadStep \/ LoadReturn

SpecLoader == InitLoader /\ [][NextLoader]_vars

-----------------------------------------------------------------------------
(* Specification of one call of get_kline_time *)

InitFetch ==
    /\ \E st \in Times, et \in Times, lim \in Limits, bs \in SUBSET Times,
          dn \in BOOLEAN :
          fetch = [pc |-> "loop", start_time |-> st, end_time |-> et,
                   limit |-> lim, bars |-> bs, down |-> dn,
                   start_ts |-> st, klines |-> <<>>, failures |-> 0]
    /\ loader = LoaderIdle
    /\ close = <<>>
    /\ signals = <<>>
    /\ pc = "idle"
    /\ i = ScanStart
    /\ position = ScanInit.position
    /\ entry_price = ScanInit.entry_price
    /\ returns = ScanInit.returns
    /\ trade_outcomes = ScanInit.trade_outcomes
    /\ interval = <<>>
    /\ periods = NoPeriods
    /\ annualization_factor = NoFactor
    /\ result = NoResult

\* an iteration whose request is answered, lines 37-50: an empty batch ends
\* the loop, any other is appended and moves start_ts
FetchOk ==
    /\ fetch.pc = "loop"
    /\ fetch.start_ts < fetch.end_time
    /\ ~fetch.down
    /\ LET batch == GetKlines(fetch.bars, fetch.start_ts, fetch.end_time,
                              fetch.limit)
       IN fetch' = IF batch = <<>>
                   THEN [fetch EXCEPT !.pc = "returned"]
                   ELSE [fetch EXCEPT !.klines = @ \o batch,
                                      !.start_ts = NextStart(batch)]
    /\ UNCHANGED <<metricsVars, loader>>

\* an iteration whose request raises, lines 51-54; failures counts them and
\* is capped by MaxFailures
FetchFail ==
    /\ fetch.pc = "loop"
    /\ fetch.start_ts < fetch.end_time
    /\ fetch.failures < MaxFailures
    /\ fetch' = [OnException(fetch) EXCEPT !.failures = @ + 1]
    /\ UNCHANGED <<metricsVars, loader>>

\* the while condition fails: return klines, line 55
FetchReturn ==
    /\ fetch.pc = "loop"
    /\ fetch.start_ts >= fetch.end_time
    /\ fetch' = [fetch EXCEPT !.pc = "returned"]
    /\ UNCHANGED <<metricsVars, loader>>

NextFetch == FetchOk \/ FetchFail \/ FetchReturn

SpecFetch == InitFetch /\ [][NextFetch]_vars

\* the loop is sequential code: while it can take a step it takes one
SpecFetchFair == SpecFetch /\ WF_vars(NextFetch)

-----------------------------------------------------------------------------
(* Claims about calculate_returns_from_signals *)

\* The two-state machine of the design, written from its transition table:
\* its state after the bars at positions 1 .. p - 1 (position 0 is skipped).
\* A trade is the pair of its entry and exit prices; exits lists the
\* positions of the bars on which the trades were closed.
RECURSIVE TwoStateMachine(_)
TwoStateMachine(p) ==
    IF p <= 1 THEN [state |-> "Flat", entry |-> 0, trades |-> <<>>, sells |-> 0,
                    exits |-> <<>>]
    ELSE LET m == TwoStateMachine(p - 1)
             price == close[p]
             sig == signals[p]
         IN IF m.state = "Flat" /\ sig = Buy
            THEN [m EXCEPT !.state = "Long", !.entry = price]
            ELSE IF m.state = "Long" /\ sig = Sell
            THEN [m EXCEPT !.state = "Flat",
                           !.trades = Append(@, <<m.entry, price>>),
                           !.exits = Append(@, p - 1),
                           !.sells = @ + 1]
            ELSE m

\* number of bars the converter has consumed the signal of, plus one
Scanned == IF pc = "scan" THEN i ELSE Len(close)

\* C1: at every point of the scan the position, the entry price and the
\* trades emitted so far are those of the two-state machine that starts Flat
\* and reads positions 1 .. N - 1: Buy while Flat records the close as entry
\* and emits nothing, Sell while Long emits one trade with return
\* (exit - entry) / entry and profitable = (return > 0), anything else
\* changes nothing.
C1_TradesOfTwoStateMachine ==
    LET m == TwoStateMachine(Scanned)
    IN /\ position = (IF m.state = "Long" THEN 1 ELSE 0)
       /\ m.state = "Long" => entry_price = m.entry
       /\ Len(returns) = Len(m.trades)
       /\ Len(trade_outcomes) = Len(m.trades)
       /\ \A j \in 1..Len(m.trades) :
             /\ returns[j] * m.trades[j][1] = (m.trades[j][2] - m.trades[j][1]) * Scale
             /\ trade_outcomes[j] = (returns[j] > 0)

\* a finished scan that met a Buy while Long and a Sell while Flat around
\* one winning trade
C1_Witness ==
    /\ pc = "metrics"
    /\ signals = <<Hold, Buy, Buy, Sell, Sell>>
    /\ close[2] < close[4] /\ close[3] # close[2] /\ close[5] # close[4]
    /\ Len(returns) = 1 /\ returns[1] > 0
    /\ trade_outcomes = <<TRUE>>

\* C7: the signal at position 0 is never read: replacing it by any other
\* signal gives the same returns and the same outcomes.
C7_FirstSignalIgnored ==
    (pc # "scan" /\ Len(close) >= 1) =>
        \A s \in Signal :
            calculate_returns_from_signals(close, [signals EXCEPT ![1] = s])
                = <<returns, trade_outcomes>>

\* a Buy at position 0 followed by a Sell at position 1: no trade
C7_Witness ==
    /\ pc = "metrics"
    /\ Len(close) >= 2
    /\ signals[1] = Buy /\ signals[2] = Sell
    /\ close[2] # close[1]
    /\ returns = <<>>

\* C8: a position open when the bars end emits no trade: the trades are as
\* many as the Sell-while-Long transitions, and a trailing Buy, appended to
\* the input or removed from it, changes neither returns nor outcomes.
C8_OpenPositionDiscarded ==
    pc # "scan" =>
        /\ Len(returns) = TwoStateMachine(Len(close)).sells
        /\ Len(trade_outcomes) = Len(returns)
        /\ \A price \in Prices :
              calculate_returns_from_signals(Append(close, price), Append(signals, Buy))
                  = <<returns, trade_outcomes>>
        /\ (Len(close) >= 1 /\ signals[Len(close)] = Buy) =>
              calculate_returns_from_signals(SubSeq(close, 1, Len(close) - 1),
                                             SubSeq(signals, 1, Len(close) - 1))
                  = <<returns, trade_outcomes>>

\* the bars end while Long, after one completed trade, the last bar
\* carrying a Buy
C8_Witness ==
    /\ pc = "metrics"
    /\ position = 1
    /\ Len(returns) = 1
    /\ signals[Len(close)] = Buy

-----------------------------------------------------------------------------
(* Claims about calculate_metrics *)

\* the call has returned or raised, and the interval was a valid one
Finished == pc = "done" /\ periods.status = "ok"

\* C2: with no completed trade the call does not abort: it returns a record
\* with num_of_trades = 0 and every ratio field 0 (stated for frames of at
\* least one bar; an empty frame already fails at line 100).
C2_NoTradesZeroRecord ==
    (Finished /\ Len(close) >= 1 /\ returns = <<>>) =>
        /\ result.status = "ok"
        /\ result.num_of_trades = 0
        /\ IsZero(result.SR)
        /\ result.CR = 0
        /\ result.MDD = 0
        /\ IsZero(result.sortino_ratio)
        /\ result.AR = 0
        /\ result.TR = 0
        /\ result.SR_CR.kind = "zero"
        /\ result.trades_per_interval = 0
        /\ result.MDD_MAX_DURATION_IN_DAY = 0
        /\ result.win_rate = 0

\* C3: with exactly one completed trade the call returns a record with
\* num_of_trades = 1, total return (exit - entry) / entry, and a win rate of
\* 100 when that return is positive and 0 otherwise.
C3_SingleTradeRecord ==
    (Finished /\ Len(returns) = 1) =>
        LET t == TwoStateMachine(Len(close)).trades[1]
        IN /\ result.status = "ok"
           /\ result.num_of_trades = 1
           /\ result.TR = Round4(t[2] - t[1], t[1])
           /\ result.win_rate = (IF t[2] > t[1] THEN 100 * 100 ELSE 0)

\* the recovery point of the design: the first position i >= trough of the
\* curve with C_i >= M[trough], the trough itself when there is none
RecoveryIndex(rs) ==
    LET c == CumSum(rs)
        rm == CumMax(c)
        k == IdxMin(Drawdowns(rs))
        later == {j \in k..(Len(rs) - 1) : c[j + 1] >= rm[k + 1]}
    IN IF later # {} THEN SetMin(later) ELSE k

\* C4: for a non-empty curve the record is produced, with the maximum
\* drawdown min(C - M), and the recovery point used is the first position
\* i >= trough with C_i >= M[trough], the trough itself when there is none.
C4_RecoveryPoint ==
    (Finished /\ Len(returns) >= 1) =>
        /\ result.status = "ok"
        /\ result.MDD = Round4(MaxDD(returns), Scale)
        /\ DDRecoverLoc(returns) = SeriesLabelLoc(RecoveryIndex(returns))

\* C5: for a cumulative curve that never decreases the record reports a
\* maximum drawdown of 0, start, trough and recovery coincide, and the
\* drawdown lasts 0 days.
C5_MonotoneCurveNoDrawdown ==
    (/\ Finished
     /\ Len(returns) >= 1
     /\ \A j \in 2..Len(returns) : returns[j] >= 0) =>
        /\ result.status = "ok"
        /\ result.MDD = 0
        /\ DDStartLoc(returns) = DDEndLoc(returns)
        /\ DDRecoverLoc(returns) = DDEndLoc(returns)
        /\ result.MDD_MAX_DURATION_IN_DAY = 0

AllProfitable == \A j \in 1..Len(returns) : returns[j] > 0

-----------------------------------------------------------------------------
(* Claims about get_periods_per_year *)

Letters == Chars \ (Digits \cup Spaces)

\* the whole descriptor is <integer><letter>
IntegerThenLetter(d) ==
    /\ Len(d) >= 2
    /\ \A j \in 1..(Len(d) - 1) : d[j] \in Digits
    /\ d[Len(d)] \in Letters

\* the whole descriptor is <integer><unit>, unit h or d in either case
WholeMatch(d) == IntegerThenLetter(d) /\ Lower(d[Len(d)]) \in {"h", "d"}

\* C9: every descriptor that is not, as a whole, <integer><unit> with unit
\* h or d fails with the invalid-interval-format error.
C9_InvalidFormatRejected ==
    (pc = "done" /\ ~WholeMatch(interval)) => periods.status = "ValueError"

\* C10 as stated: <n>h gives 8760 / n, <n>d gives 365 / n, and any other
\* unit fails with an error of its own, distinct from the invalid-format one.
C10_UnsupportedUnitError ==
    (pc = "done" /\ IntegerThenLetter(interval)) =>
        LET n == ParseInt(SubSeq(interval, 1, Len(interval) - 1))
            unit == Lower(interval[Len(interval)])
        IN /\ unit = "h" => /\ periods.status = "ok"
                            /\ periods.num * n = 8760 * periods.den
           /\ unit = "d" => /\ periods.status = "ok"
                            /\ periods.num * n = 365 * periods.den
           /\ unit \notin {"h", "d"} => periods.status = "UnsupportedIntervalUnit"

\* C10, amended: for n >= 1, <n>h gives 8760 / n and <n>d gives 365 / n; for
\* n = 0 the division raises ZeroDivisionError; any other unit fails with the
\* invalid-format error itself, and never returns a fallback value.
C10_UnitsOrInvalidFormat ==
    (pc = "done" /\ IntegerThenLetter(interval)) =>
        LET n == ParseInt(SubSeq(interval, 1, Len(interval) - 1))
            unit == Lower(interval[Len(interval)])
        IN /\ (unit = "h" /\ n >= 1) => /\ periods.status = "ok"
                                        /\ periods.num * n = 8760 * periods.den
           /\ (unit = "d" /\ n >= 1) => /\ periods.status = "ok"
                                        /\ periods.num * n = 365 * periods.den
           /\ (unit \in {"h", "d"} /\ n = 0) => periods.status = "ZeroDivisionError"
           /\ unit \notin {"h", "d"} => periods.status = "ValueError"

\* the descriptor 12m, an integer and a unit that is neither h nor d, was
\* rejected as an invalid format
C10_Witness ==
    /\ pc = "done"
    /\ interval = <<"1", "2", "m">>
    /\ periods.status = "ValueError"

-----------------------------------------------------------------------------
(* Claims about the annualization scalar *)

\* the scalar the design prescribes: the override when one is given, whatever
\* its value, and sqrt(periods_per_year) when none is
PrescribedScalar ==
    IF annualization_factor.given
    THEN [kind |-> "given", value |-> annualization_factor.value, num |-> 0, den |-> 1]
    ELSE [kind |-> "sqrt", value |-> 0, num |-> periods.num, den |-> periods.den]

\* C11: in a returned record Sharpe and Sortino are scaled by
\* sqrt(periods_per_year) exactly when no override is given and by the
\* override, unchanged, when one is given (0 included); Calmar and the
\* annualized return use periods_per_year and do not depend on the override.
C11_AnnualizationScalar ==
    (Finished /\ result.status = "ok") =>
        /\ result.SR.factor = PrescribedScalar
        /\ result.sortino_ratio.factor = PrescribedScalar
        /\ (result.SR.factor.kind = "sqrt") <=> ~annualization_factor.given
        /\ result.AR = Round4(SumTo(returns, Len(returns)) * periods.num,
                              Len(returns) * Scale * periods.den)
        /\ \A af \in AnnFactors :
              LET r == MetricsRecord(close, returns, trade_outcomes, periods, af)
              IN r.CR = result.CR /\ r.AR = result.AR

\* a record whose Sharpe ratio is a proper quotient scaled by the override 0
C11_Witness ==
    /\ Finished
    /\ result.status = "ok"
    /\ annualization_factor = [given |-> TRUE, value |-> 0]
    /\ result.SR.kind = "value"
    /\ result.SR.factor = [kind |-> "given", value |-> 0, num |-> 0, den |-> 1]
    /\ result.CR # 0

-----------------------------------------------------------------------------
(* Claims about the drawdown start, sign and duration *)

\* the start point of the design: the last position i < trough of the curve
\* with C_i = M_i, position 0 when there is none
StartIndex(rs) ==
    LET c == CumSum(rs)
        rm == CumMax(c)
        k == IdxMin(Drawdowns(rs))
        peaks == {j \in 0..(k - 1) : c[j + 1] = rm[j + 1]}
    IN IF peaks # {} THEN SetMax(peaks) ELSE 0

\* C13: for a non-empty curve the drawdown start computed at lines 104-113 is
\* the point at the last position i < trough with C_i = M_i, the point at
\* position 0 when there is none, and it never lies after the trough.
C13_DrawdownStart ==
    (Finished /\ Len(returns) >= 1) =>
        /\ DDStartLoc(returns) = SeriesLabelLoc(StartIndex(returns))
        /\ DDStartLoc(returns) <= DDEndLoc(returns)

\* a returned record whose trough is the third trade and whose drawdown
\* starts at the second, the last peak before it
C13_Witness ==
    /\ Finished
    /\ result.status = "ok"
    /\ Len(returns) >= 4
    /\ IdxMin(Drawdowns(returns)) = 2
    /\ StartIndex(returns) = 1
    /\ DDStartLoc(returns) = 2

\* C15: every record returned has max_drawdown <= 0 and a drawdown duration
\* >= 0: the recovery timestamp is never earlier than the start timestamp.
C15_DrawdownSigns ==
    (Finished /\ result.status = "ok") =>
        /\ result.MDD <= 0
        /\ result.MDD_MAX_DURATION_IN_DAY >= 0
        /\ Timestamp(DDRecoverLoc(returns)) >= Timestamp(DDStartLoc(returns))

\* a returned record with a drawdown below 0 that recovered after the trough
C15_Witness ==
    /\ Finished
    /\ result.status = "ok"
    /\ result.MDD < 0
    /\ DDRecoverLoc(returns) > DDEndLoc(returns)
    /\ DDStartLoc(returns) < DDEndLoc(returns)
    /\ result.MDD_MAX_DURATION_IN_DAY > 0

\* C16: the duration of a returned record is the difference of the exit
\* timestamps of the trades at the recovery point and at the start point, in
\* days: each curve point carries the timestamp of the bar that closed its
\* trade.  (A point labelled with bar loc is the trade number loc.)
C16_DurationFromExitTimestamps ==
    (Finished /\ result.status = "ok") =>
        LET exits == TwoStateMachine(Len(close)).exits
        IN result.MDD_MAX_DURATION_IN_DAY =
              Round4(Timestamp(exits[DDRecoverLoc(returns)])
                         - Timestamp(exits[DDStartLoc(returns)]),
                     SecondsPerDay)

-----------------------------------------------------------------------------
(* Claims about the alternation of entries and exits and the trade count *)

\* C14: the position is always Flat (0) or Long (1), and entries and exits
\* alternate: a trade is emitted only by a step that finds the position Long
\* and leaves it Flat, every such step emits exactly one trade, and the entry
\* (position and entry price) is written only by a step that finds the
\* position Flat, leaves it Long and emits nothing.
C14_EntriesAndExitsAlternate ==
    /\ position \in {0, 1}
    /\ [][/\ position' \in {0, 1}
          /\ Len(returns') \in {Len(returns), Len(returns) + 1}
          /\ Len(trade_outcomes') = Len(returns')
          /\ (Len(returns') = Len(returns) + 1) <=> (position = 1 /\ position' = 0)
          /\ (entry_price' # entry_price \/ position' > position) =>
                (position = 0 /\ position' = 1 /\ returns' = returns)]_vars

\* two trades were emitted: entry, exit, entry, exit
C14_Witness ==
    /\ pc = "metrics"
    /\ position = 0
    /\ Len(returns) = 2
    /\ signals = <<Buy, Buy, Sell, Buy, Sell>>

\* C19 as stated: a frame of N bars completes at most floor((N - 1) / 2)
\* trades, the label slice holds exactly one label per trade, and the return
\* series and the cumulative curve are as long as the trade list.
C19_TradeCountBound ==
    pc # "scan" =>
        /\ Len(returns) <= (Len(close) - 1) \div 2
        /\ IndexSliceLen(Len(close), Len(returns)) = Len(returns)
        /\ Len(CumSum(returns)) = Len(returns)

\* C19, amended: a frame of N >= 1 bars completes at most floor((N - 1) / 2)
\* trades and an empty frame completes none; the label slice holds exactly
\* one label per trade, and the return series and the cumulative curve are as
\* long as the trade list, empty when there is no trade.
C19_TradeCountBoundNonEmpty ==
    pc # "scan" =>
        /\ Len(close) >= 1 => Len(returns) <= (Len(close) - 1) \div 2
        /\ Len(close) = 0 => Len(returns) = 0
        /\ IndexSliceLen(Len(close), Len(returns)) = Len(returns)
        /\ Len(CumSum(returns)) = Len(returns)
        /\ Len(trade_outcomes) = Len(returns)

\* a frame of 5 bars that completed floor(4 / 2) = 2 trades
C19_Witness ==
    /\ pc = "metrics"
    /\ Len(close) = 5
    /\ Len(returns) = 2
    /\ Len(CumSum(returns)) = 2

-----------------------------------------------------------------------------
(* Claims about load_kline_data *)

\* the symbols at positions 1 .. n of the request
Requested(n) == {loader.symbols[j] : j \in 1..n}

\* the positions among the first n whose file is missing or unreadable
FailedPositions(n) ==
    {j \in 1..n : loader.files[loader.symbols[j]] # "ok"}

\* C12: load_kline_data processes every requested symbol independently. A
\* symbol whose file is missing or unreadable is reported (one message per
\* occurrence) and left out of the result, the loop goes on to the remaining
\* symbols (the function returns only after all of them were processed), and
\* the returned mapping holds exactly the requested symbols whose file
\* existed and was read, each with the frame of its own file.
C12_SymbolsLoadedIndependently ==
    loader.pc # "idle" =>
        LET n == loader.k
            good == {s \in Requested(n) : loader.files[s] = "ok"}
        IN /\ n <= Len(loader.symbols)
           /\ loader.pc = "returned" => n = Len(loader.symbols)
           /\ {e[1] : e \in loader.dataframes} = good
           /\ \A e \in loader.dataframes : e[2] = CsvPath(e[1])
           /\ Len(loader.warnings) = Cardinality(FailedPositions(n))
           /\ {w[2] : w \in {loader.warnings[j] :
                                 j \in 1..Len(loader.warnings)}}
                  = Requested(n) \ good
           /\ \A j \in 1..Len(loader.warnings) :
                  loader.warnings[j][1] =
                      IF loader.files[loader.warnings[j][2]] = "missing"
                      THEN "not found" ELSE "error"

\* a missing file, then an unreadable one, then a good one: the call returned
\* with the third symbol only
C12_Witness ==
    /\ loader.pc = "returned"
    /\ loader.symbols = <<"BTCUSDT", "ETHUSDT", "BNBUSDT">>
    /\ loader.files["BTCUSDT"] = "missing"
    /\ loader.files["ETHUSDT"] = "unreadable"
    /\ loader.files["BNBUSDT"] = "ok"
    /\ loader.dataframes = {<<"BNBUSDT", CsvPath("BNBUSDT")>>}
    /\ Len(loader.warnings) = 2

-----------------------------------------------------------------------------
(* Claims about get_kline_time *)

\* what the provider would answer to the next request
NextBatch ==
    GetKlines(fetch.bars, fetch.start_ts, fetch.end_time, fetch.limit)

\* the step is an iteration whose request raised
FailedRequest == fetch'.failures = fetch.failures + 1

\* C17: every failed batch request is retried, however many failed before.
\* After an exception the loop is still running, the next request uses the
\* same start_ts and the bars collected so far are unchanged; the loop never
\* exits because of a failure, so with a provider that always fails (and
\* start_time < end_time) the function never returns and collects nothing.
C17_FailuresRetriedForever ==
    /\ [][FailedRequest =>
             /\ fetch.pc = "loop"
             /\ fetch'.pc = "loop"
             /\ fetch'.start_ts = fetch.start_ts
             /\ fetch'.klines = fetch.klines
             /\ fetch'.start_ts < fetch'.end_time]_vars
    /\ [][fetch'.pc = "returned" /\ fetch.pc = "loop" =>
             /\ ~FailedRequest
             /\ fetch.start_ts >= fetch.end_time \/ ~fetch.down]_vars
    /\ [](fetch.pc # "idle" /\ fetch.down
              /\ fetch.start_time < fetch.end_time =>
                 /\ fetch.pc = "loop"
                 /\ fetch.klines = <<>>
                 /\ fetch.start_ts = fetch.start_time)

\* two requests failed after a batch had been collected, and the loop still
\* runs with that batch
C17_Witness ==
    /\ fetch.pc = "loop"
    /\ fetch.failures = 2
    /\ fetch.klines = <<0, 1>>
    /\ fetch.start_ts = 2
    /\ fetch.end_time = 3

\* C18: when the provider fails only finitely often (it is not permanently
\* down, and the failures of a call are bounded), get_kline_time eventually
\* returns. Every answered non-empty batch ends with a bar at or after the
\* requested start_ts and moves start_ts strictly forward; the loop stops as
\* soon as a batch is empty or start_ts >= end_time, and for no other reason.
C18_EventuallyReturns ==
    /\ <>(fetch.down \/ fetch.pc = "returned")
    /\ [][fetch'.klines # fetch.klines =>
             /\ NextBatch # <<>>
             /\ fetch'.klines = fetch.klines \o NextBatch
             /\ NextBatch[Len(NextBatch)] >= fetch.start_ts
             /\ fetch'.start_ts > fetch.start_ts
             /\ fetch'.pc = "loop"]_vars
    /\ [][fetch.pc = "loop" /\ ~FailedRequest =>
             (fetch'.pc = "returned" <=>
                  (fetch.start_ts >= fetch.end_time \/ NextBatch = <<>>))]_vars

\* a call that met a failure, collected four bars in two batches and returned
\* once start_ts had reached end_time
C18_Witness ==
    /\ fetch.pc = "returned"
    /\ ~fetch.down
    /\ fetch.failures >= 1
    /\ fetch.limit = 2
    /\ fetch.klines = <<0, 1, 2, 3>>
    /\ fetch.start_ts >= fetch.end_time

====
